---- MODULE Spec2Model ----
(***************************************************************************)
(* Model of the User and Image resource controllers of em-photographe-api. *)
(*                                                                         *)
(* State: the Users and Images tables of the record store, the files of    *)
(* the two storage directories (IMG_URL and IMG_URL/users/, which are also *)
(* the upload directories of formidable), the clock read by Date.now(),    *)
(* and one record per request in flight.  A handler is cut at its awaits   *)
(* that touch the store or the filesystem: each action runs one such call  *)
(* and the synchronous code that follows it, up to the next one.           *)
(*                                                                         *)
(* File names are pairs <<stem, n>>: <<"ann", 3>> is `ann-3.EXT`,          *)
(* <<"", 3>> is `3.EXT`, <<"tmp", 1>> is an upload staged by formidable,   *)
(* <<"undefined", 0>> is the text JavaScript concatenates for undefined.   *)
(* A client chooses the url of an Image freely, so a url may be the name   *)
(* of a file that createImage generated.                                   *)
(*                                                                         *)
(* The store fails only for a cause the code gives it: a violated unique   *)
(* or not-null constraint of the model files.  The filesystem fails on a   *)
(* missing file.  A second res.json on one response throws.                *)
(*                                                                         *)
(* The two controllers share no table and no directory, and sendMessage    *)
(* touches neither, so a behaviour drives one of them (route); requests    *)
(* are counted (nreq) to bound it.                                         *)
(***************************************************************************)
EXTENDS Integers, Sequences, FiniteSets, TLC

VARIABLES
    users,      \* rows of the Users table
    images,     \* rows of the Images table
    ufiles,     \* names of the files in USERS_IMG (IMG_URL/users/)
    files,      \* names of the files in IMG_URL
    userSeq,    \* last id given by the Users table (autoIncrement)
    imageSeq,   \* last id given by the Images table (autoIncrement)
    clock,      \* Date.now()
    rq,         \* rq[s]: the request handled in slot s
    pre,        \* pre[s]: the store and filesystem when request s arrived
    made,       \* made[id]: the file createImage wrote for Image row id
    asked,      \* <<op, id>> of the finished delete requests that found their row
    nreq,       \* requests received so far
    conc,       \* how many requests the client keeps in flight
    route       \* what the client drives: "users", "images" or "mail"

vars == <<users, images, ufiles, files, userSeq, imageSeq, clock, rq, pre,
          made, asked, nreq, conc, route>>

-----------------------------------------------------------------------------
(* Bounds of the model *)

MaxSlots == 2
MaxReq   == 3
MaxClock == 2
MaxTmp   == 2
MaxId    == 2
MaxConcReq == 2        \* requests of a behaviour with two in flight

Slots == 1..MaxSlots
Ids   == 1..MaxId      \* the ids update and delete requests ask for

-----------------------------------------------------------------------------
(* Configuration read from process.env *)

StringMin == 2
StringMax == 3
TextMax   == 5

\* The messages of the check helpers; each is set to a text of its own.
CHECK_NAME     == "check name"
CHECK_EMAIL    == "check email"
CHECK_PASSWORD == "check password"
DISPO_NAME     == "name taken"
DISPO_EMAIL    == "email taken"
DISPO_URL      == "url taken"

\* a || b of JavaScript on two texts: a unless it is empty.
Or(a, b) == IF a # "" THEN a ELSE b

-----------------------------------------------------------------------------
(* Values *)

NoFile    == <<"none", 0>>
Undefined == <<"undefined", 0>>

\* A password is the tuple of its characters. NoPw: the request has no
\* password field (undefined); EmptyPw: the field holds the empty text.
NoPw      == <<>>
EmptyPw   == <<"">>

Names      == {"A", "Ann", "Bob"}
Emails     == {<<"ann">>, <<"ann", "@", "x.com">>, <<"bob", "@", "x.com">>}
Passwords  == {NoPw, EmptyPw, <<"w", "e", "a", "k">>, <<"S", "t", "r", "0", "n", "g">>}
Galleries  == {"g1", "g2"}
Descs      == {"", "sea"}
Urls       == {<<"pic", 0>>, <<"", 1>>}

TmpNames   == {<<"tmp", n>> : n \in 1..MaxTmp}

-----------------------------------------------------------------------------
(* Validation Engine and naming helpers of app/middlewares *)

checkRange(value, min, max) == Len(value) >= min /\ Len(value) <= max

checkEmail(value) ==
    /\ Len(value) = 3
    /\ value[2] = "@"
    /\ value[1] # ""
    /\ value[3] # ""

PwMinLen == 6
Digits   == {"0", "1", "2", "3", "4", "5", "6", "7", "8", "9"}
Uppers   == {"A", "B", "C", "D", "E", "F", "G", "H", "I", "J", "K", "L", "M",
             "N", "O", "P", "Q", "R", "S", "T", "U", "V", "W", "X", "Y", "Z"}

checkPassword(value) ==
    /\ value # NoPw
    /\ Len(value) >= PwMinLen
    /\ \E i \in 1..Len(value) : value[i] \in Digits
    /\ \E i \in 1..Len(value) : value[i] \in Uppers

getName(name) ==
    CASE name = "A"   -> "a"
      [] name = "Ann" -> "ann"
      [] name = "Bob" -> "bob"
      [] OTHER        -> "x"

BcryptHash(password) == <<"$2b$10$", password>>

\* if (password): an absent field and the empty text are falsy.
Falsy(password) == password \in {NoPw, EmptyPw}

-----------------------------------------------------------------------------
(* Requests and responses *)

Idle ==
    [op |-> "none", pc |-> "idle", id |-> 0,
     name |-> "", email |-> <<>>, password |-> NoPw,
     url |-> NoFile, description |-> "", gallery |-> "",
     upload |-> NoFile,      \* files.image.newFilename, NoFile without upload
     rows |-> {},            \* what findAll / findByPk returned
     img |-> Undefined,      \* the local IMG / img
     hash |-> NoPw,          \* the local hash
     body |-> {},            \* the rows of the response body (null: none)
     mail |-> "none",        \* how mailer.sendMail ended: none, sent, ...
     sent |-> 0,             \* status of the response that went out, 0: none
     msg |-> "",             \* the message a check helper sent with it
     tries |-> 0,            \* calls of res.json for this request
     thrown |-> FALSE,       \* an exception is propagating
     unhandled |-> FALSE,    \* the catch block itself threw
     commit |-> "none"]      \* the store mutation: none, ok, failed

NoSnapshot == [users |-> {}, images |-> {}, ufiles |-> {}, files |-> {}]
Snapshot   == [users |-> users, images |-> images, ufiles |-> ufiles, files |-> files]

\* res.status(code).json(body): the first call sends the response, a later
\* call throws ERR_HTTP_HEADERS_SENT.
Send(r, code) ==
    IF r.thrown THEN r
    ELSE IF r.sent = 0
         THEN [r EXCEPT !.sent = code, !.tries = @ + 1]
         ELSE [r EXCEPT !.tries = @ + 1, !.thrown = TRUE]

\* res.status(code).json({ message: m })
SendMsg(r, code, m) ==
    IF r.thrown \/ r.sent # 0 THEN Send(r, code)
    ELSE [Send(r, code) EXCEPT !.msg = m]

Throw(r) == [r EXCEPT !.thrown = TRUE]

\* catch (error) { res.status(code).json(...) }: ends the handler; when a
\* response went out already the catch block throws in its turn.
Catch(r, code) ==
    [r EXCEPT !.pc = "done", !.thrown = FALSE, !.tries = @ + 1,
              !.sent = IF @ = 0 THEN code ELSE @,
              !.unhandled = (r.sent # 0)]

\* The end of a step: go on to the next await, or into the catch block.
Settle(r, nextpc, code) ==
    IF r.thrown THEN Catch(r, code) ELSE [r EXCEPT !.pc = nextpc]

\* n calls in a row of a helper that sends a 403: the second one throws.
SendEach(r, n, code) ==
    IF n = 0 THEN r
    ELSE IF n = 1 THEN Send(r, code)
    ELSE Send(Send(r, code), code)

FreshTmp(dir) ==
    CHOOSE t \in TmpNames \ dir : \A t2 \in TmpNames \ dir : t[2] <= t2[2]

Busy == {s \in Slots : rq[s].pc # "idle"}

\* A request arrives in the lowest free slot.
CanBegin(s, router) ==
    /\ route = router
    /\ rq[s].pc = "idle"
    /\ \A s2 \in Slots : s2 < s => rq[s2].pc # "idle"
    /\ Cardinality(Busy) < conc
    /\ nreq < MaxReq

\* dt: the time that has passed since the request before.
Arrive(s, r, dt) ==
    /\ clock + dt <= MaxClock
    /\ clock' = clock + dt
    /\ rq' = [rq EXCEPT ![s] = r]
    /\ pre' = [pre EXCEPT ![s] = Snapshot]
    /\ nreq' = nreq + 1

-----------------------------------------------------------------------------
(* Record store: the Users table (model/UserModel.js) *)

\* unique: true on name, email and image.
UserUniqueOff(row, others) == TRUE

UserUnique(row, others) ==
    \A u \in others :
        /\ u.name # row.name
        /\ u.email # row.email
        /\ u.image # row.image

\* allowNull: false on image (the other columns are always given here).
UserNotNull(row) == row.image # Undefined

UserRow(id, r) ==
    [id |-> id, name |-> r.name, email |-> r.email, image |-> r.img,
     password |-> r.hash]

\* User.update(user, { where: { id: ID }}): user is { ...fields, image: img,
\* password: hash } when the password is truthy and { ...fields, image: img }
\* otherwise, where fields holds the password field as submitted; an
\* undefined value is left out.
UserUpdated(u, r) ==
    [u EXCEPT !.name = r.name, !.email = r.email,
              !.image = IF r.img = Undefined THEN @ ELSE r.img,
              !.password = IF r.hash # NoPw THEN r.hash
                           ELSE IF r.password = NoPw THEN @
                           ELSE r.password]

UserById(id) == {u \in users : u.id = id}

\* The constraints of the table on an UPDATE of the rows old into new.
UserUpdateOK(old, new) ==
    \A n \in new : UserNotNull(n) /\ UserUnique(n, users \ old)

UsersAfterUpdateTorn(old, new) ==
    IF UserUpdateOK(old, new) THEN (users \ old) \cup new
    ELSE (users \ old) \cup {[p[1] EXCEPT !.image = p[2].image] : p \in old \X new}

\* The table after the UPDATE: one statement, all or nothing.
UsersAfterUpdate(old, new) ==
    IF UserUpdateOK(old, new) THEN (users \ old) \cup new ELSE users

-----------------------------------------------------------------------------
(* UserCtrl: helpers *)

checkUserData(r) ==
    IF ~checkRange(r.name, StringMin, StringMax) \/ ~checkEmail(r.email)
    THEN SendMsg(r, 403, Or(CHECK_NAME, CHECK_EMAIL)) ELSE r

checkUserPassword(r) ==
    IF ~checkPassword(r.password) THEN SendMsg(r, 403, CHECK_PASSWORD) ELSE r

\* The rows of a findAll result that checkUserUnique rejects.
UserCollisions(r, rows) ==
    {u \in rows : u.name = r.name \/ u.email = r.email}

\* One call per row: res.status(403).json({ message: DISPO_NAME ||
\* DISPO_EMAIL }) for every row that collides.
checkUserUnique(r, rows) ==
    LET n == Cardinality(UserCollisions(r, rows))
    IN IF n = 0 THEN r
       ELSE SendEach(SendMsg(r, 403, Or(DISPO_NAME, DISPO_EMAIL)), n - 1, 403)

\* setImage of UserCtrl builds two paths and writes nothing.
setImage(dir, input, output) == dir

\* const hash = await bcrypt.hash(password, 10): rejects without data.
hashPassword(r) ==
    IF r.thrown THEN r
    ELSE IF r.password = NoPw THEN Throw(r)
    ELSE [r EXCEPT !.hash = BcryptHash(r.password)]

-----------------------------------------------------------------------------
(* UserCtrl.createUser *)

\* form.parse stages the upload; checkUserData; checkUserPassword;
\* User.findAll() is issued.
BeginCreateUser(s, dt, name, email, password, up) ==
    /\ CanBegin(s, "users")
    /\ up => TmpNames \ ufiles # {}
    /\ LET tmp == IF up THEN FreshTmp(ufiles) ELSE NoFile
           r0  == [Idle EXCEPT !.op = "createUser", !.name = name,
                               !.email = email, !.password = password,
                               !.upload = tmp]
           r1  == checkUserPassword(checkUserData(r0))
       IN /\ Arrive(s, Settle(r1, "findAll", 400), dt)
          /\ ufiles' = IF up THEN ufiles \cup {tmp} ELSE ufiles
    /\ UNCHANGED <<users, images, files, userSeq, imageSeq, made, asked, conc, route>>

\* The code of createUser between the unlink of the upload and User.create.
CreateUserHash(r) == Settle(hashPassword(r), "create", 400)

\* users = await User.findAll(); the uniqueness loop; IMG; setImage.
CreateUserFindAll(s) ==
    /\ rq[s].op = "createUser" /\ rq[s].pc = "findAll"
    /\ LET r0 == [rq[s] EXCEPT !.rows = users]
           r1 == checkUserUnique(r0, r0.rows)
           r2 == [r1 EXCEPT !.img = <<getName(r1.name), clock>>]
       IN /\ rq' = [rq EXCEPT ![s] =
                 IF r1.thrown THEN Catch(r1, 400)
                 ELSE IF r2.upload # NoFile THEN [r2 EXCEPT !.pc = "unlinkTmp"]
                 ELSE CreateUserHash(r2)]
          /\ ufiles' = IF r1.thrown \/ r2.upload = NoFile THEN ufiles
                       ELSE setImage(ufiles, r2.upload, r2.img)
    /\ UNCHANGED <<users, images, files, userSeq, imageSeq, clock, pre, made, asked, nreq, conc, route>>

\* await fs.promises.unlink(USERS_IMG + image.newFilename); bcrypt.hash.
CreateUserUnlink(s) ==
    /\ rq[s].op = "createUser" /\ rq[s].pc = "unlinkTmp"
    /\ IF rq[s].upload \in ufiles
       THEN /\ ufiles' = ufiles \ {rq[s].upload}
            /\ rq' = [rq EXCEPT ![s] = CreateUserHash(rq[s])]
       ELSE /\ ufiles' = ufiles
            /\ rq' = [rq EXCEPT ![s] = Catch(rq[s], 400)]
    /\ UNCHANGED <<users, images, files, userSeq, imageSeq, clock, pre, made, asked, nreq, conc, route>>

\* await User.create({ ...fields, image: IMG, password: hash }); 201.
CreateUserCreate(s) ==
    /\ rq[s].op = "createUser" /\ rq[s].pc = "create"
    /\ LET row == UserRow(userSeq + 1, rq[s])
       IN IF UserNotNull(row) /\ UserUnique(row, users)
          THEN /\ users' = users \cup {row}
               /\ userSeq' = userSeq + 1
               /\ rq' = [rq EXCEPT ![s] =
                      Settle(Send([rq[s] EXCEPT !.commit = "ok"], 201), "done", 400)]
          ELSE /\ UNCHANGED <<users, userSeq>>
               /\ rq' = [rq EXCEPT ![s] = Catch([rq[s] EXCEPT !.commit = "failed"], 400)]
    /\ UNCHANGED <<images, ufiles, files, imageSeq, clock, pre, made, asked, nreq, conc, route>>

-----------------------------------------------------------------------------
(* UserCtrl.updateUser *)

\* form.parse stages the upload; checkUserData; User.findAll() is issued.
BeginUpdateUser(s, dt, id, name, email, password, up) ==
    /\ CanBegin(s, "users")
    /\ up => TmpNames \ ufiles # {}
    /\ LET tmp == IF up THEN FreshTmp(ufiles) ELSE NoFile
           r0  == [Idle EXCEPT !.op = "updateUser", !.id = id, !.name = name,
                               !.email = email, !.password = password,
                               !.upload = tmp]
       IN /\ Arrive(s, Settle(checkUserData(r0), "findAll", 400), dt)
          /\ ufiles' = IF up THEN ufiles \cup {tmp} ELSE ufiles
    /\ UNCHANGED <<users, images, files, userSeq, imageSeq, made, asked, conc, route>>

\* if (password) { checkUserPassword; hash }: the code of updateUser
\* between the unlink of the upload and User.update.
UpdateUserHash(r) ==
    IF Falsy(r.password) THEN Settle(r, "update", 400)
    ELSE Settle(hashPassword(checkUserPassword(r)), "update", 400)

\* let img = users.find(user => user.id === ID)?.image
UserOldImage(rows, id) ==
    IF \E u \in rows : u.id = id
    THEN (CHOOSE u \in rows : u.id = id).image
    ELSE Undefined

\* users = await User.findAll(); 404 on no rows; the uniqueness loop over
\* the other rows; img; setImage.
UpdateUserFindAll(s) ==
    /\ rq[s].op = "updateUser" /\ rq[s].pc = "findAll"
    /\ LET r0 == [rq[s] EXCEPT !.rows = users]
           r1 == checkUserUnique(r0, {u \in r0.rows : u.id # r0.id})
           r2 == [r1 EXCEPT !.img = IF r1.upload # NoFile
                                    THEN <<getName(r1.name), clock>>
                                    ELSE UserOldImage(r1.rows, r1.id)]
       IN /\ rq' = [rq EXCEPT ![s] =
                 IF r0.rows = {} THEN Settle(Send(r0, 404), "done", 400)
                 ELSE IF r1.thrown THEN Catch(r1, 400)
                 ELSE IF r2.upload # NoFile THEN [r2 EXCEPT !.pc = "unlinkTmp"]
                 ELSE UpdateUserHash(r2)]
          /\ ufiles' = IF r0.rows = {} \/ r1.thrown \/ r2.upload = NoFile THEN ufiles
                       ELSE setImage(ufiles, r2.upload, r2.img)
    /\ UNCHANGED <<users, images, files, userSeq, imageSeq, clock, pre, made, asked, nreq, conc, route>>

\* await fs.promises.unlink(USERS_IMG + image.newFilename); the password.
UpdateUserUnlink(s) ==
    /\ rq[s].op = "updateUser" /\ rq[s].pc = "unlinkTmp"
    /\ IF rq[s].upload \in ufiles
       THEN /\ ufiles' = ufiles \ {rq[s].upload}
            /\ rq' = [rq EXCEPT ![s] = UpdateUserHash(rq[s])]
       ELSE /\ ufiles' = ufiles
            /\ rq' = [rq EXCEPT ![s] = Catch(rq[s], 400)]
    /\ UNCHANGED <<users, images, files, userSeq, imageSeq, clock, pre, made, asked, nreq, conc, route>>

\* await User.update(user, { where: { id: ID }}); 200.
UpdateUserUpdate(s) ==
    /\ rq[s].op = "updateUser" /\ rq[s].pc = "update"
    /\ LET old == UserById(rq[s].id)
           new == {UserUpdated(u, rq[s]) : u \in old}
       IN /\ users' = UsersAfterUpdate(old, new)
          /\ rq' = [rq EXCEPT ![s] =
                 IF UserUpdateOK(old, new)
                 THEN Settle(Send([rq[s] EXCEPT !.commit = "ok"], 200), "done", 400)
                 ELSE Catch([rq[s] EXCEPT !.commit = "failed"], 400)]
    /\ UNCHANGED <<images, ufiles, files, userSeq, imageSeq, clock, pre, made, asked, nreq, conc, route>>

-----------------------------------------------------------------------------
(* UserCtrl.deleteUser *)

\* User.findByPk(ID) is issued.
BeginDeleteUser(s, dt, id) ==
    /\ CanBegin(s, "users")
    /\ Arrive(s, [Idle EXCEPT !.op = "deleteUser", !.id = id, !.pc = "findByPk"], dt)
    /\ UNCHANGED <<users, images, ufiles, files, userSeq, imageSeq, made, asked, conc, route>>

\* user = await User.findByPk(ID); 404 when there is none.
DeleteUserFindByPk(s) ==
    /\ rq[s].op = "deleteUser" /\ rq[s].pc = "findByPk"
    /\ LET r0 == [rq[s] EXCEPT !.rows = UserById(rq[s].id)]
       IN rq' = [rq EXCEPT ![s] =
              IF r0.rows = {} THEN Settle(Send(r0, 404), "done", 404)
              ELSE [r0 EXCEPT !.pc = "destroy"]]
    /\ UNCHANGED <<users, images, ufiles, files, userSeq, imageSeq, clock, pre, made, asked, nreq, conc, route>>

\* await User.destroy({ where: { id: ID }}); 204.
DeleteUserDestroy(s) ==
    /\ rq[s].op = "deleteUser" /\ rq[s].pc = "destroy"
    /\ users' = users \ UserById(rq[s].id)
    /\ rq' = [rq EXCEPT ![s] =
           Settle(Send([rq[s] EXCEPT !.commit = "ok"], 204), "done", 404)]
    /\ UNCHANGED <<images, ufiles, files, userSeq, imageSeq, clock, pre, made, asked, nreq, conc, route>>

-----------------------------------------------------------------------------
(* UserCtrl.listUsers, UserCtrl.readUser *)

\* res.json(user): the JSON text of a row holds every column of the table.
UserJSON(u) ==
    [id |-> u.id, name |-> u.name, email |-> u.email, image |-> u.image,
     password |-> u.password]

\* users.map((user) => ({ id, name, email, image }))
UserListed(u) ==
    [id |-> u.id, name |-> u.name, email |-> u.email, image |-> u.image]

\* User.findAll() is issued.
BeginListUsers(s, dt) ==
    /\ CanBegin(s, "users")
    /\ Arrive(s, [Idle EXCEPT !.op = "listUsers", !.pc = "findAll"], dt)
    /\ UNCHANGED <<users, images, ufiles, files, userSeq, imageSeq, made, asked, conc, route>>

\* users = await User.findAll(); usersList; 200.
ListUsersFindAll(s) ==
    /\ rq[s].op = "listUsers" /\ rq[s].pc = "findAll"
    /\ LET r0 == [rq[s] EXCEPT !.rows = users,
                               !.body = {UserListed(u) : u \in users}]
       IN rq' = [rq EXCEPT ![s] = Settle(Send(r0, 200), "done", 404)]
    /\ UNCHANGED <<users, images, ufiles, files, userSeq, imageSeq, clock, pre, made, asked, nreq, conc, route>>

\* User.findByPk(ID) is issued.
BeginReadUser(s, dt, id) ==
    /\ CanBegin(s, "users")
    /\ Arrive(s, [Idle EXCEPT !.op = "readUser", !.id = id, !.pc = "findByPk"], dt)
    /\ UNCHANGED <<users, images, ufiles, files, userSeq, imageSeq, made, asked, conc, route>>

\* .then((user) => res.status(200).json(user)): findByPk resolves with the
\* row, or with null when there is none; .catch answers a rejection.
ReadUserThen(s) ==
    /\ rq[s].op = "readUser" /\ rq[s].pc = "findByPk"
    /\ LET r0 == [rq[s] EXCEPT !.rows = UserById(rq[s].id),
                               !.body = {UserJSON(u) : u \in UserById(rq[s].id)}]
       IN rq' = [rq EXCEPT ![s] = Settle(Send(r0, 200), "done", 404)]
    /\ UNCHANGED <<users, images, ufiles, files, userSeq, imageSeq, clock, pre, made, asked, nreq, conc, route>>

-----------------------------------------------------------------------------
(* UserCtrl.sendMessage *)

\* How the mail-send collaborator ends: the mail is sent; the send fails
\* and the callback gets the error; the call itself throws or rejects.
MailOutcomes == {"sent", "failed", "thrown"}

\* form.parse; getMessage(fields); mailer.sendMail(mail, callback) is issued.
BeginSendMessage(s, dt) ==
    /\ CanBegin(s, "mail")
    /\ Arrive(s, [Idle EXCEPT !.op = "sendMessage", !.pc = "sendMail"], dt)
    /\ UNCHANGED <<users, images, ufiles, files, userSeq, imageSeq, made, asked, conc, route>>

\* The callback of sendMail answers 202 and does not look at its error
\* argument; catch (e) { console.error(e) } answers nothing.
SendMessageSendMail(s, outcome) ==
    /\ rq[s].op = "sendMessage" /\ rq[s].pc = "sendMail"
    /\ LET r0 == [rq[s] EXCEPT !.mail = outcome, !.pc = "done"]
       IN rq' = [rq EXCEPT ![s] =
              IF outcome = "thrown" THEN r0 ELSE Send(r0, 202)]
    /\ UNCHANGED <<users, images, ufiles, files, userSeq, imageSeq, clock, pre, made, asked, nreq, conc, route>>

-----------------------------------------------------------------------------
(* Record store: the Images table (model/ImageModel.js) *)

\* unique: true on url.
ImageUnique(row, others) == \A i \in others : i.url # row.url

\* Image.create({ ...fields, name: IMG }): the table has no name column.
ImageRow(id, r) ==
    [id |-> id, url |-> r.url, description |-> r.description,
     gallery |-> r.gallery]

\* Image.update({ ...fields }, { where: { id: ID }})
ImageUpdated(i, r) ==
    [i EXCEPT !.url = r.url, !.description = r.description,
              !.gallery = r.gallery]

ImageById(id) == {i \in images : i.id = id}

\* Image.findAll({ where: { gallery: gallery }})
ImagesOf(gallery) == {i \in images : i.gallery = gallery}

-----------------------------------------------------------------------------
(* ImageCtrl: helpers *)

checkImageData(r) ==
    IF ~checkRange(r.description, StringMin, TextMax)
    THEN SendMsg(r, 403, CHECK_NAME) ELSE r

ImageCollisions(r, rows) == {i \in rows : i.url = r.url}

checkImageUnique(r, rows) ==
    LET n == Cardinality(ImageCollisions(r, rows))
    IN IF n = 0 THEN r
       ELSE SendEach(SendMsg(r, 403, DISPO_URL), n - 1, 403)

\* setImage of app/middlewares, called by setImages: writes the file
\* `output` of the storage directory from the staged file `input`.
middlewareSetImage(dir, input, output) == dir \cup {output}

-----------------------------------------------------------------------------
(* ImageCtrl.createImage *)

\* form.parse stages the upload; checkImageData; Image.findAll is issued.
BeginCreateImage(s, dt, url, description, gallery, up) ==
    /\ CanBegin(s, "images")
    /\ up => TmpNames \ files # {}
    /\ LET tmp == IF up THEN FreshTmp(files) ELSE NoFile
           r0  == [Idle EXCEPT !.op = "createImage", !.url = url,
                               !.description = description,
                               !.gallery = gallery, !.upload = tmp]
       IN /\ Arrive(s, Settle(checkImageData(r0), "findAll", 400), dt)
          /\ files' = IF up THEN files \cup {tmp} ELSE files
    /\ UNCHANGED <<users, images, ufiles, userSeq, imageSeq, made, asked, conc, route>>

\* images = await Image.findAll(...); the uniqueness loop; IMG.
CreateImageFindAll(s) ==
    /\ rq[s].op = "createImage" /\ rq[s].pc = "findAll"
    /\ LET r0 == [rq[s] EXCEPT !.rows = ImagesOf(rq[s].gallery)]
           r1 == checkImageUnique(r0, r0.rows)
           r2 == [r1 EXCEPT !.img = <<"", clock>>]
       IN rq' = [rq EXCEPT ![s] =
              IF r1.thrown THEN Catch(r1, 400)
              ELSE IF r2.upload # NoFile THEN [r2 EXCEPT !.pc = "setImages"]
              ELSE [r2 EXCEPT !.pc = "create"]]
    /\ UNCHANGED <<users, images, ufiles, files, userSeq, imageSeq, clock, pre, made, asked, nreq, conc, route>>

\* await this.setImages(image.newFilename, IMG)
CreateImageSetImages(s) ==
    /\ rq[s].op = "createImage" /\ rq[s].pc = "setImages"
    /\ IF rq[s].upload \in files
       THEN /\ files' = middlewareSetImage(files, rq[s].upload, rq[s].img)
            /\ rq' = [rq EXCEPT ![s].pc = "unlinkTmp"]
       ELSE /\ files' = files
            /\ rq' = [rq EXCEPT ![s] = Catch(rq[s], 400)]
    /\ UNCHANGED <<users, images, ufiles, userSeq, imageSeq, clock, pre, made, asked, nreq, conc, route>>

\* await fs.promises.unlink(IMG_URL + image.newFilename)
CreateImageUnlink(s) ==
    /\ rq[s].op = "createImage" /\ rq[s].pc = "unlinkTmp"
    /\ IF rq[s].upload \in files
       THEN /\ files' = files \ {rq[s].upload}
            /\ rq' = [rq EXCEPT ![s].pc = "create"]
       ELSE /\ files' = files
            /\ rq' = [rq EXCEPT ![s] = Catch(rq[s], 400)]
    /\ UNCHANGED <<users, images, ufiles, userSeq, imageSeq, clock, pre, made, asked, nreq, conc, route>>

\* await Image.create({ ...fields, name: IMG }); 201.
CreateImageCreate(s) ==
    /\ rq[s].op = "createImage" /\ rq[s].pc = "create"
    /\ LET row == ImageRow(imageSeq + 1, rq[s])
       IN IF ImageUnique(row, images)
          THEN /\ images' = images \cup {row}
               /\ imageSeq' = imageSeq + 1
               /\ made' = IF rq[s].upload # NoFile
                          THEN made \cup {<<row.id, rq[s].img>>} ELSE made
               /\ rq' = [rq EXCEPT ![s] =
                      Settle(Send([rq[s] EXCEPT !.commit = "ok"], 201), "done", 400)]
          ELSE /\ UNCHANGED <<images, imageSeq, made>>
               /\ rq' = [rq EXCEPT ![s] = Catch([rq[s] EXCEPT !.commit = "failed"], 400)]
    /\ UNCHANGED <<users, ufiles, files, userSeq, clock, pre, asked, nreq, conc, route>>

-----------------------------------------------------------------------------
(* ImageCtrl.updateImage *)

\* form.parse stages the upload; checkImageData; Image.findAll is issued.
BeginUpdateImage(s, dt, id, url, description, gallery, up) ==
    /\ CanBegin(s, "images")
    /\ up => TmpNames \ files # {}
    /\ LET tmp == IF up THEN FreshTmp(files) ELSE NoFile
           r0  == [Idle EXCEPT !.op = "updateImage", !.id = id, !.url = url,
                               !.description = description,
                               !.gallery = gallery, !.upload = tmp]
       IN /\ Arrive(s, Settle(checkImageData(r0), "findAll", 400), dt)
          /\ files' = IF up THEN files \cup {tmp} ELSE files
    /\ UNCHANGED <<users, images, ufiles, userSeq, imageSeq, made, asked, conc, route>>

ImageOldFileUrl(rows, id) ==
    IF \E i \in rows : i.id = id
    THEN (CHOOSE i \in rows : i.id = id).url
    ELSE Undefined

\* let img = images.find(image => image.id === ID)?.image: an Image row has
\* no image column, the value is undefined whatever the row.
ImageOldFile(rows, id) == Undefined

\* img = `${Date.now()}.${IMG_EXT}` in updateImage: IMG_EXT is bound in
\* createImage alone, reading it here throws a ReferenceError.
UpdateImageRename(r) == Throw(r)

\* images = await Image.findAll(...); 404 on no rows; the uniqueness loop
\* over the other rows; img.
UpdateImageFindAll(s) ==
    /\ rq[s].op = "updateImage" /\ rq[s].pc = "findAll"
    /\ LET r0 == [rq[s] EXCEPT !.rows = ImagesOf(rq[s].gallery)]
           r1 == checkImageUnique(r0, {i \in r0.rows : i.id # r0.id})
           r2 == [r1 EXCEPT !.img = ImageOldFile(r1.rows, r1.id)]
       IN rq' = [rq EXCEPT ![s] =
              IF r0.rows = {} THEN Settle(Send(r0, 404), "done", 400)
              ELSE IF r1.thrown THEN Catch(r1, 400)
              ELSE IF r2.upload # NoFile THEN [r2 EXCEPT !.pc = "unlinkOld"]
              ELSE [r2 EXCEPT !.pc = "update"]]
    /\ UNCHANGED <<users, images, ufiles, files, userSeq, imageSeq, clock, pre, made, asked, nreq, conc, route>>

\* await fs.promises.unlink(IMG_URL + img); img = ...
UpdateImageUnlinkOld(s) ==
    /\ rq[s].op = "updateImage" /\ rq[s].pc = "unlinkOld"
    /\ IF rq[s].img \in files
       THEN /\ files' = files \ {rq[s].img}
            /\ rq' = [rq EXCEPT ![s] = Settle(UpdateImageRename(rq[s]), "setImages", 400)]
       ELSE /\ files' = files
            /\ rq' = [rq EXCEPT ![s] = Catch(rq[s], 400)]
    /\ UNCHANGED <<users, images, ufiles, userSeq, imageSeq, clock, pre, made, asked, nreq, conc, route>>

\* await Image.update({ ...fields }, { where: { id: ID }}); 200.
UpdateImageUpdate(s) ==
    /\ rq[s].op = "updateImage" /\ rq[s].pc = "update"
    /\ LET old == ImageById(rq[s].id)
           new == {ImageUpdated(i, rq[s]) : i \in old}
       IN IF \A n \in new : ImageUnique(n, images \ old)
          THEN /\ images' = (images \ old) \cup new
               /\ rq' = [rq EXCEPT ![s] =
                      Settle(Send([rq[s] EXCEPT !.commit = "ok"], 200), "done", 400)]
          ELSE /\ images' = images
               /\ rq' = [rq EXCEPT ![s] = Catch([rq[s] EXCEPT !.commit = "failed"], 400)]
    /\ UNCHANGED <<users, ufiles, files, userSeq, imageSeq, clock, pre, made, asked, nreq, conc, route>>

-----------------------------------------------------------------------------
(* ImageCtrl.deleteImage *)

\* Image.findByPk(ID) is issued.
BeginDeleteImage(s, dt, id) ==
    /\ CanBegin(s, "images")
    /\ Arrive(s, [Idle EXCEPT !.op = "deleteImage", !.id = id, !.pc = "findByPk"], dt)
    /\ UNCHANGED <<users, images, ufiles, files, userSeq, imageSeq, made, asked, conc, route>>

\* image = await Image.findByPk(ID); 404 when there is none.
DeleteImageFindByPk(s) ==
    /\ rq[s].op = "deleteImage" /\ rq[s].pc = "findByPk"
    /\ LET r0 == [rq[s] EXCEPT !.rows = ImageById(rq[s].id)]
       IN rq' = [rq EXCEPT ![s] =
              IF r0.rows = {} THEN Settle(Send(r0, 404), "done", 400)
              ELSE [r0 EXCEPT !.pc = "unlink",
                              !.img = (CHOOSE i \in r0.rows : TRUE).url]]
    /\ UNCHANGED <<users, images, ufiles, files, userSeq, imageSeq, clock, pre, made, asked, nreq, conc, route>>

\* await fs.promises.unlink(IMG_URL + image.url): rejects on a missing file.
DeleteImageUnlink(s) ==
    /\ rq[s].op = "deleteImage" /\ rq[s].pc = "unlink"
    /\ IF rq[s].img \in files
       THEN /\ files' = files \ {rq[s].img}
            /\ rq' = [rq EXCEPT ![s].pc = "destroy"]
       ELSE /\ files' = files
            /\ rq' = [rq EXCEPT ![s] = Catch(rq[s], 400)]
    /\ UNCHANGED <<users, images, ufiles, userSeq, imageSeq, clock, pre, made, asked, nreq, conc, route>>

\* await Image.destroy({ where: { id: ID } }); 204.
DeleteImageDestroy(s) ==
    /\ rq[s].op = "deleteImage" /\ rq[s].pc = "destroy"
    /\ images' = images \ ImageById(rq[s].id)
    /\ rq' = [rq EXCEPT ![s] =
           Settle(Send([rq[s] EXCEPT !.commit = "ok"], 204), "done", 400)]
    /\ UNCHANGED <<users, ufiles, files, userSeq, imageSeq, clock, pre, made, asked, nreq, conc, route>>

-----------------------------------------------------------------------------
(* Environment and specification *)

\* The handler of slot s has returned; the slot is free again.
Finish(s) ==
    /\ rq[s].pc = "done"
    /\ rq' = [rq EXCEPT ![s] = Idle]
    /\ pre' = [pre EXCEPT ![s] = NoSnapshot]
    /\ asked' = IF rq[s].op \in {"deleteUser", "deleteImage"} /\ rq[s].rows # {}
                THEN asked \cup {<<rq[s].op, rq[s].id>>} ELSE asked
    /\ UNCHANGED <<users, images, ufiles, files, userSeq, imageSeq, clock, made, nreq, conc, route>>

InitStore ==
    /\ users = {} /\ images = {}
    /\ ufiles = {} /\ files = {}
    /\ userSeq = 0 /\ imageSeq = 0
    /\ clock = 1
    /\ rq = [s \in Slots |-> Idle]
    /\ pre = [s \in Slots |-> NoSnapshot]
    /\ made = {} /\ asked = {}
    /\ nreq = 0

\* Requests one after the other, to one of the routers.
Init == InitStore /\ conc = 1 /\ route \in {"users", "images", "mail"}

UserNext ==
    \E s \in Slots :
        \/ CanBegin(s, "users") /\
           \E dt \in 0..1, n \in Names, e \in Emails, p \in Passwords, up \in BOOLEAN :
               BeginCreateUser(s, dt, n, e, p, up)
        \/ CreateUserFindAll(s)
        \/ CreateUserUnlink(s)
        \/ CreateUserCreate(s)
        \/ CanBegin(s, "users") /\
           \E dt \in 0..1, id \in Ids, n \in Names, e \in Emails, p \in Passwords, up \in BOOLEAN :
               BeginUpdateUser(s, dt, id, n, e, p, up)
        \/ UpdateUserFindAll(s)
        \/ UpdateUserUnlink(s)
        \/ UpdateUserUpdate(s)
        \/ CanBegin(s, "users") /\ \E dt \in 0..1, id \in Ids : BeginDeleteUser(s, dt, id)
        \/ DeleteUserFindByPk(s)
        \/ DeleteUserDestroy(s)
        \/ CanBegin(s, "users") /\ \E dt \in 0..1 : BeginListUsers(s, dt)
        \/ ListUsersFindAll(s)
        \/ CanBegin(s, "users") /\ \E dt \in 0..1, id \in Ids : BeginReadUser(s, dt, id)
        \/ ReadUserThen(s)

ImageNext ==
    \E s \in Slots :
        \/ CanBegin(s, "images") /\
           \E dt \in 0..1, u \in Urls, d \in Descs, g \in Galleries, up \in BOOLEAN :
               BeginCreateImage(s, dt, u, d, g, up)
        \/ CreateImageFindAll(s)
        \/ CreateImageSetImages(s)
        \/ CreateImageUnlink(s)
        \/ CreateImageCreate(s)
        \/ CanBegin(s, "images") /\
           \E dt \in 0..1, id \in Ids, u \in Urls, d \in Descs, g \in Galleries, up \in BOOLEAN :
               BeginUpdateImage(s, dt, id, u, d, g, up)
        \/ UpdateImageFindAll(s)
        \/ UpdateImageUnlinkOld(s)
        \/ UpdateImageUpdate(s)
        \/ CanBegin(s, "images") /\ \E dt \in 0..1, id \in Ids : BeginDeleteImage(s, dt, id)
        \/ DeleteImageFindByPk(s)
        \/ DeleteImageUnlink(s)
        \/ DeleteImageDestroy(s)

MailNext ==
    \E s \in Slots :
        \/ CanBegin(s, "mail") /\ \E dt \in 0..1 : BeginSendMessage(s, dt)
        \/ \E o \in MailOutcomes : SendMessageSendMail(s, o)

Next ==
    \/ UserNext
    \/ ImageNext
    \/ MailNext
    \/ \E s \in Slots : Finish(s)

Spec == Init /\ [][Next]_vars

\* Two createUser requests in flight at once: the callbacks of form.parse
\* interleave at their awaits.
InitConc == InitStore /\ conc = 2 /\ route = "users"

NextConc ==
    \E s \in Slots :
        \/ CanBegin(s, "users") /\ nreq < MaxConcReq /\
           \E dt \in 0..1, n \in Names, e \in Emails, p \in Passwords, up \in BOOLEAN :
               BeginCreateUser(s, dt, n, e, p, up)
        \/ CreateUserFindAll(s)
        \/ CreateUserUnlink(s)
        \/ CreateUserCreate(s)
        \/ Finish(s)

SpecConc == InitConc /\ [][NextConc]_vars

-----------------------------------------------------------------------------
(* What the properties speak of *)

Done(s) == rq[s].pc = "done"

Updates == {"updateUser", "updateImage"}
Creates == {"createUser", "createImage"}
Deletes == {"deleteUser", "deleteImage"}

UserOps == {"createUser", "updateUser", "deleteUser", "listUsers", "readUser"}

\* The storage directory of the request's resource kind, now and on arrival.
Dir(s)    == IF rq[s].op \in UserOps THEN ufiles ELSE files
PreDir(s) == IF rq[s].op \in UserOps THEN pre[s].ufiles ELSE pre[s].files

\* The row the request names, now and on arrival (a set of at most one row).
Row(s) ==
    IF rq[s].op \in UserOps THEN {u \in users : u.id = rq[s].id}
    ELSE {i \in images : i.id = rq[s].id}
PreRow(s) ==
    IF rq[s].op \in UserOps THEN {u \in pre[s].users : u.id = rq[s].id}
    ELSE {i \in pre[s].images : i.id = rq[s].id}

\* The stored filename a row refers to: image of a User, url of an Image
\* (the name deleteImage unlinks).
RefOf(s, row) == IF rq[s].op \in UserOps THEN row.image ELSE row.url

\* The stored files of the request's record that were on disk on arrival:
\* the file its row names, and for an Image the file createImage wrote.
OldFiles(s) ==
    ({RefOf(s, row) : row \in PreRow(s)}
       \cup (IF rq[s].op \in UserOps THEN {}
             ELSE {m[2] : m \in {x \in made : x[1] = rq[s].id}}))
    \cap PreDir(s)

Unchanged(s) ==
    /\ users = pre[s].users
    /\ images = pre[s].images
    /\ ufiles = pre[s].ufiles
    /\ files = pre[s].files

\* The same, the uploads staged by formidable aside.
UnchangedButUploads(s) ==
    /\ users = pre[s].users
    /\ images = pre[s].images
    /\ ufiles \ TmpNames = pre[s].ufiles \ TmpNames
    /\ files \ TmpNames = pre[s].files \ TmpNames

\* A field check of the request fails.
FieldCheckFails(r) ==
    CASE r.op = "createUser" ->
           \/ ~checkRange(r.name, StringMin, StringMax)
           \/ ~checkEmail(r.email)
           \/ ~checkPassword(r.password)
      [] r.op = "updateUser" ->
           \/ ~checkRange(r.name, StringMin, StringMax)
           \/ ~checkEmail(r.email)
           \/ (~Falsy(r.password) /\ ~checkPassword(r.password))
      [] r.op \in {"createImage", "updateImage"} ->
           ~checkRange(r.description, StringMin, TextMax)
      [] OTHER -> FALSE

\* The uniqueness check of the request fails against the rows on arrival.
UniqueCheckFails(s) ==
    CASE rq[s].op = "createUser" ->
           UserCollisions(rq[s], pre[s].users) # {}
      [] rq[s].op = "updateUser" ->
           UserCollisions(rq[s], {u \in pre[s].users : u.id # rq[s].id}) # {}
      [] rq[s].op = "createImage" ->
           ImageCollisions(rq[s], {i \in pre[s].images : i.gallery = rq[s].gallery}) # {}
      [] rq[s].op = "updateImage" ->
           ImageCollisions(rq[s], {i \in pre[s].images :
                                     i.gallery = rq[s].gallery /\ i.id # rq[s].id}) # {}
      [] OTHER -> FALSE

-----------------------------------------------------------------------------
(* C1 - C10 *)

\* C1: while an update request with a new upload has not committed its row
\* update, every stored file its record had on arrival is still in storage.
C1_OldFileKeptUntilCommit ==
    \A s \in Slots :
        (rq[s].op \in Updates /\ rq[s].upload # NoFile /\ rq[s].commit # "ok")
            => OldFiles(s) \subseteq Dir(s)

\* An update with an upload ran to its end on a record that had a file.
C1_Witness ==
    \E s \in Slots :
        /\ Done(s) /\ rq[s].op = "updateImage" /\ rq[s].upload # NoFile
        /\ PreRow(s) # {} /\ OldFiles(s) # {}
        /\ rq[s].sent = 400

\* C2: a create or update request whose field check or uniqueness check
\* fails leaves the rows of the store and the stored files of both
\* directories as they were on arrival.
C2_NoMutationOnCheckFailure ==
    \A s \in Slots :
        (Done(s) /\ rq[s].op \in Creates \cup Updates
                 /\ (FieldCheckFails(rq[s]) \/ UniqueCheckFails(s)))
            => UnchangedButUploads(s)

\* C3: createUser with the name or the email of a stored User is answered
\* 403 and leaves the Users rows as they were.
C3_DuplicateUserRejected ==
    \A s \in Slots :
        (Done(s) /\ rq[s].op = "createUser"
                 /\ UserCollisions(rq[s], pre[s].users) # {})
            => (rq[s].sent = 403 /\ users = pre[s].users)

\* A createUser that failed the uniqueness check alone and went as far as
\* User.create.
C3_Witness ==
    \E s \in Slots :
        /\ Done(s) /\ rq[s].op = "createUser"
        /\ UserCollisions(rq[s], pre[s].users) # {}
        /\ ~FieldCheckFails(rq[s])
        /\ rq[s].commit = "failed"

\* C4: after an update with a new upload answered 200, the record's old
\* stored file is gone, the new one is in storage and the row names it.
C4_NewFileReplacesOld ==
    \A s \in Slots :
        (Done(s) /\ rq[s].op \in Updates /\ rq[s].upload # NoFile
                 /\ rq[s].sent = 200 /\ PreRow(s) # {})
            => /\ \A row \in PreRow(s) : RefOf(s, row) \notin Dir(s)
               /\ rq[s].img \in Dir(s)
               /\ \A row \in Row(s) : RefOf(s, row) = rq[s].img

C6_DeleteRemovesRowAndFile ==
    \A s \in Slots :
        (Done(s) /\ rq[s].op = "deleteImage" /\ rq[s].sent = 204)
            => /\ Row(s) = {}
               /\ \A m \in made : m[1] = rq[s].id => m[2] \notin files

\* C7: deleteImage of a row whose stored file is not on disk answers 204
\* and destroys the row.
C7_DeleteToleratesMissingFile ==
    \A s \in Slots :
        (Done(s) /\ rq[s].op = "deleteImage" /\ PreRow(s) # {}
                 /\ \A row \in PreRow(s) : row.url \notin pre[s].files)
            => (rq[s].sent = 204 /\ Row(s) = {})

\* C8: the first delete request for a stored resource answers 204; a
\* delete request for a resource that one was asked for before answers 404
\* and changes nothing.
C8_SecondDeleteNotFound ==
    \A s \in Slots :
        (Done(s) /\ rq[s].op \in Deletes)
            => /\ (<<rq[s].op, rq[s].id>> \notin asked /\ PreRow(s) # {})
                      => rq[s].sent = 204
               /\ (<<rq[s].op, rq[s].id>> \in asked)
                      => (rq[s].sent = 404 /\ Unchanged(s))

\* C9: an update without upload leaves the stored filename of its record
\* and the files of the storage directory as they were.
C9_UpdateWithoutFileKeepsName ==
    \A s \in Slots :
        (Done(s) /\ rq[s].op \in Updates /\ rq[s].upload = NoFile)
            => /\ {RefOf(s, row) : row \in Row(s)} = {RefOf(s, row) : row \in PreRow(s)}
               /\ Dir(s) = PreDir(s)

\* C10: with no request in flight, every stored file of a storage
\* directory (a staged upload is not one) is the stored filename of exactly
\* one row.
C10_EveryFileHasOneRow ==
    Busy = {} =>
        /\ \A f \in files \ TmpNames :
               Cardinality({i \in images : i.url = f}) = 1
        /\ \A f \in ufiles \ TmpNames :
               Cardinality({u \in users : u.image = f}) = 1

-----------------------------------------------------------------------------
(* C11 - C20 *)

\* C11: the password of every User row is the salted hash of a submitted
\* password, and after an updateUser that carried a password field and
\* wrote its row, the row holds the hash of that very password.
C11_PasswordStoredHashed ==
    /\ \A u \in users :
           \E p \in Passwords \ {NoPw} : u.password = BcryptHash(p)
    /\ \A s \in Slots :
           (Done(s) /\ rq[s].op = "updateUser" /\ rq[s].commit = "ok"
                    /\ rq[s].password # NoPw)
               => \A u \in Row(s) : u.password = BcryptHash(rq[s].password)

\* C12: the body of a response of listUsers or readUser holds no password
\* field, whatever the stored User.
C12_NoPasswordInReadBody ==
    \A s \in Slots :
        (Done(s) /\ rq[s].op \in {"listUsers", "readUser"})
            => \A b \in rq[s].body : "password" \notin DOMAIN b

\* C13: readUser of an id that no row has answers 404.
C13_ReadMissingUserNotFound ==
    \A s \in Slots :
        (Done(s) /\ rq[s].op = "readUser" /\ PreRow(s) = {})
            => rq[s].sent = 404

\* C14: no two Image rows share a url; a createImage, or an updateImage of
\* a stored row, whose url is that of another stored Image, of whatever
\* gallery, is answered 403 by the uniqueness check and leaves the rows as
\* they were.
C14_UrlUniqueInSystem ==
    /\ \A i, j \in images : i.url = j.url => i = j
    /\ \A s \in Slots :
           (Done(s) /\ rq[s].op \in {"createImage", "updateImage"}
                    /\ \E i \in pre[s].images :
                           /\ i.url = rq[s].url
                           /\ rq[s].op = "updateImage" =>
                                  (i.id # rq[s].id /\ PreRow(s) # {}))
               => (rq[s].sent = 403 /\ images = pre[s].images)

\* C15: a sendMessage whose mail send did not succeed has, once its
\* handler is through, been answered, and by a failure response.
C15_MailFailureAnswered ==
    \A s \in Slots :
        (Done(s) /\ rq[s].op = "sendMessage" /\ rq[s].mail # "sent")
            => rq[s].sent >= 400

\* C17: once a create or update request that carried an upload is through,
\* whatever its outcome, the upload that formidable staged for it is no
\* longer in the upload directory.
C17_NoTempFileLeft ==
    \A s \in Slots :
        (Done(s) /\ rq[s].op \in Creates \cup Updates /\ rq[s].upload # NoFile)
            => rq[s].upload \notin Dir(s)

\* C19: the message of a rejected user request is that of the first
\* failing check: the email message when the name is in range and the
\* email is ill-formed, the email-taken message when the field checks pass
\* and the rows the handler read collide by their email alone.
C19_FirstFailingCheckReported ==
    \A s \in Slots :
        (Done(s) /\ rq[s].op \in {"createUser", "updateUser"})
            => /\ (checkRange(rq[s].name, StringMin, StringMax)
                      /\ ~checkEmail(rq[s].email))
                     => rq[s].msg = CHECK_EMAIL
               /\ LET others == IF rq[s].op = "createUser" THEN rq[s].rows
                                ELSE {u \in rq[s].rows : u.id # rq[s].id}
                  IN (/\ rq[s].sent = 403
                      /\ checkRange(rq[s].name, StringMin, StringMax)
                      /\ checkEmail(rq[s].email)
                      /\ rq[s].op = "createUser" => checkPassword(rq[s].password)
                      /\ \E u \in others : u.email = rq[s].email
                      /\ \A u \in others : u.name # rq[s].name)
                     => rq[s].msg = DISPO_EMAIL

\* C20: a createUser, updateUser, createImage or updateImage request calls
\* res.json exactly once: after the 403 of a check helper the handler makes
\* no further attempt to answer.
C20_ExactlyOneResponse ==
    \A s \in Slots :
        (Done(s) /\ rq[s].op \in Creates \cup Updates) => rq[s].tries = 1

\* Two createUser requests with the same name or the same email are both
\* through, and each passed the uniqueness loop on the rows it had read:
\* neither saw the row of the other, both read before either committed.
BothPassedStale(s, t) ==
    /\ s # t /\ Done(s) /\ Done(t)
    /\ rq[s].op = "createUser" /\ rq[t].op = "createUser"
    /\ rq[s].name = rq[t].name \/ rq[s].email = rq[t].email
    /\ rq[s].commit # "none" /\ rq[t].commit # "none"
    /\ UserCollisions(rq[s], rq[s].rows) = {}
    /\ UserCollisions(rq[t], rq[t].rows) = {}

-----------------------------------------------------------------------------
(* C21 *)

\* C21: with no request in flight, the stored filename of every User row
\* (image) and of every Image row (url) names a file that is in the
\* storage directory of its kind.
C21_EveryRowHasItsFile ==
    Busy = {} =>
        /\ \A u \in users : u.image \in ufiles
        /\ \A i \in images : i.url \in files

====
